---- MODULE Spec2Model ----
(***************************************************************************)
(* Scroll interaction engine of the carousel: the scroll position of the   *)
(* track, drag sessions, drag-release momentum, wheel scrolling and wheel  *)
(* momentum, the infinite-loop jump, index resolution and notifications.   *)
(*                                                                         *)
(* The repository holds three builds of the Carousel class:                *)
(*   "inline"   src/src/carousel/Carousel.ts: drag and loop logic inline,  *)
(*              wheel momentum, no drag momentum;                          *)
(*   "handlers" src/src/carousel/utils/scrollUtils.ts:118-624: Carousel    *)
(*              delegating to DragHandler and InfiniteScroll, with wheel   *)
(*              momentum;                                                  *)
(*   "utils"    src/unnamed/part_002:92-425: Carousel delegating to        *)
(*              DragHandler, InfiniteScroll and the utils functions; wheel *)
(*              without momentum, native scroll listener.                  *)
(* DragHandler is src/unnamed/part_001, InfiniteScroll is                  *)
(* src/src/carousel/InfiniteScroll.ts.                                     *)
(*                                                                         *)
(* Numbers.  Lengths, positions and velocities are JavaScript doubles in   *)
(* the source.  Here they are fixed-point integers counting 1/SubPixel of  *)
(* a pixel; a product or quotient that is not a whole number of units is   *)
(* truncated toward zero.  Times are whole milliseconds.  track.scrollLeft *)
(* is modelled as the plain number the code assigns to it.                 *)
(***************************************************************************)
EXTENDS Integers, Sequences, FiniteSets, TLC

(* ------------------------------ bounds -------------------------------- *)

\* units per pixel of the fixed-point representation
SubPixel == 1

\* largest number of original slides in a carousel
MaxSlides == 2

\* performance.now() never exceeds this many milliseconds in a behaviour
MaxNow == 80

\* input events and API calls explored in one behaviour of Spec
MaxInputs == 4

\* pointer and wheel events explored in one behaviour of SpecDrag
MaxDragInputs == 5

\* input events explored in one behaviour of SpecMomentum
MaxMomentumInputs == 3

\* largest pointer travel between two samples in SpecMomentum, in pixels
MaxTravel == 8

\* largest number of original slides given to the pure functions
MaxLoopSlides == 5

\* calls of a pure function explored in one behaviour
MaxCalls == 2

\* performance.now() when the constructor returns, in milliseconds
StartMs == 48

\* most setTimeout callbacks pending at once
MaxTimers == 1

\* pointer events explored in one behaviour of SpecSample
MaxSampleInputs == 4

\* distinct callback functions a subscriber may pass to on() and off()
MaxCallbacks == 2

\* API calls and wheel events explored in one behaviour of SpecEvents
MaxEventInputs == 4

(* --------------------------- program constants ------------------------ *)

\* DragHandler DEFAULT_CONFIG.deceleration = 0.92, in percent
DragDecelerationPct == 92

\* Carousel.wheelDeceleration = 0.95, in percent
WheelDecelerationPct == 95

\* the factor 16 of "deltaX / timeDelta * 16" (milliseconds per nominal frame)
FrameMs == 16

\* the wheel handler treats events closer than 50 ms as one quick movement
WheelQuickMs == 50

(* ------------------------------ arithmetic ---------------------------- *)

Px(n) == n * SubPixel

Abs(x) == IF x < 0 THEN -x ELSE x

\* a / b truncated toward zero, b > 0
TruncDiv(a, b) == IF a >= 0 THEN a \div b ELSE -((-a) \div b)

\* the double NaN, as a number no position or index of the model comes near
NaN == -1048576

\* JavaScript a % b for b >= 0: the remainder has the sign of the dividend,
\* and a % 0 is NaN
JsRem(a, b) == IF b = 0 THEN NaN ELSE a - b * TruncDiv(a, b)

\* Math.round(a / b) for b > 0: halves round toward +infinity
MathRound(a, b) == (2 * a + b) \div (2 * b)

Min(a, b) == IF a < b THEN a ELSE b

\* |v| < 0.5 px and |v| > 0.5 px, v in units (DEFAULT_CONFIG.minVelocity = 0.5)
BelowMinVelocity(v) == 2 * Abs(v) < SubPixel

AboveMinVelocity(v) == 2 * Abs(v) > SubPixel

\* a decay that turns the velocity round without shrinking it
DecayFlips(v, pct) == -v

\* v * pct / 100, the decay "velocity *= deceleration"
Decay(v, pct) == TruncDiv(v * pct, 100)

(* ------------------------ scrollUtils: pure functions ------------------ *)

\* the double a / b: finite with its value, or not finite (NaN, +-Infinity)
\* when b = 0
JsDivide(a, b) ==
  IF b = 0
  THEN [finite |-> FALSE, value |-> 0]
  ELSE [finite |-> TRUE, value |-> IF b > 0 THEN TruncDiv(a, b) ELSE -TruncDiv(a, -b)]

\* calculateSlideWidth: the double it returns
calculateSlideWidthResult(containerW, gap, slidesPerView) ==
  LET totalGap == gap * (slidesPerView - 1)
  IN  JsDivide(containerW - totalGap, slidesPerView)

\* calculateSlideWidth as a number, for the finite results
calculateSlideWidth(containerW, gap, slidesPerView) ==
  calculateSlideWidthResult(containerW, gap, slidesPerView).value

\* getSelectedIndex; its parameter slideWidth is the pitch (slide width + gap)
getSelectedIndex(scrollPosition, slideWidth, cloneCount, originalCount, loop, slidesLength) ==
  LET index == MathRound(scrollPosition, slideWidth)
  IN  IF loop
      THEN JsRem(index - cloneCount + originalCount, originalCount)
      ELSE Min(index, slidesLength - 1)

\* calculateTargetScroll forgetting the leading clones
calculateTargetScrollNoClones(index, slideWidth, cloneCount, loop) ==
  index * slideWidth

\* calculateTargetScroll; its parameter slideWidth is the pitch
calculateTargetScroll(index, slideWidth, cloneCount, loop) ==
  IF index = NaN THEN NaN
  ELSE IF loop THEN (cloneCount + index) * slideWidth ELSE index * slideWidth

(* ----------------------------- InfiniteScroll -------------------------- *)

\* handleInfiniteScroll jumping by the whole track instead of the real window
handleInfiniteScrollWholeTrack(enabled, params, currentScroll) ==
  IF ~enabled \/ params.originalCount = 0
  THEN currentScroll
  ELSE LET step        == params.slideWidth + params.gap
           totalSlides == params.originalCount + params.cloneCount * 2
           totalWidth  == totalSlides * step
           cloneWidth  == params.cloneCount * step
       IN  IF currentScroll < cloneWidth - step
           THEN currentScroll + totalWidth
           ELSE IF currentScroll > totalWidth - cloneWidth + step
                THEN currentScroll - totalWidth
                ELSE currentScroll

\* handleInfiniteScroll with the trigger positions themselves inside the bands
handleInfiniteScrollInclusive(enabled, params, currentScroll) ==
  IF ~enabled \/ params.originalCount = 0
  THEN currentScroll
  ELSE LET step        == params.slideWidth + params.gap
           totalSlides == params.originalCount + params.cloneCount * 2
           totalWidth  == totalSlides * step
           cloneWidth  == params.cloneCount * step
           offset      == params.originalCount * step
       IN  IF currentScroll <= cloneWidth - step
           THEN currentScroll + offset
           ELSE IF currentScroll >= totalWidth - cloneWidth + step
                THEN currentScroll - offset
                ELSE currentScroll

\* handleInfiniteScroll without its early return
handleInfiniteScrollUnguarded(enabled, params, currentScroll) ==
  LET step        == params.slideWidth + params.gap
      totalSlides == params.originalCount + params.cloneCount * 2
      totalWidth  == totalSlides * step
      cloneWidth  == params.cloneCount * step
      offset      == params.originalCount * step
  IN  IF currentScroll < cloneWidth - step
      THEN currentScroll + offset
      ELSE IF currentScroll > totalWidth - cloneWidth + step
           THEN currentScroll - offset
           ELSE currentScroll

\* InfiniteScroll.handleInfiniteScroll: the position it leaves in
\* track.scrollLeft when it finds currentScroll there
handleInfiniteScroll(enabled, params, currentScroll) ==
  IF ~enabled \/ params.originalCount = 0
  THEN currentScroll
  ELSE LET step        == params.slideWidth + params.gap
           totalSlides == params.originalCount + params.cloneCount * 2
           totalWidth  == totalSlides * step
           cloneWidth  == params.cloneCount * step
           offset      == params.originalCount * step
       IN  IF currentScroll < cloneWidth - step
           THEN currentScroll + offset
           ELSE IF currentScroll > totalWidth - cloneWidth + step
                THEN currentScroll - offset
                ELSE currentScroll

\* InfiniteScroll.updateParams: { ...this.params, ...params } with the
\* slideWidth and gap that Carousel.updateDimensions passes
updateParams(params, newSlideWidth, newGap) ==
  [params EXCEPT !.slideWidth = newSlideWidth, !.gap = newGap]

(* -------------------------------- state -------------------------------- *)

VARIABLES
  build,              \* which Carousel class is running
  options,            \* Carousel.options: loop, dragFree, wheel, gap, slidesPerView
  slidesLength,       \* this.slides.length
  containerWidth,     \* this.container.offsetWidth
  scrollLeft,         \* this.track.scrollLeft
  scrollBehavior,     \* this.track.style.scrollBehavior
  slideWidth,         \* Carousel.slideWidth (cached)
  originalCount,      \* Carousel.originalCount
  cloneCount,         \* Carousel.cloneCount
  infiniteScroll,     \* the InfiniteScroll instance: exists, enabled, params
  state,              \* DragHandler.state; in the inline build the Carousel's own
                      \* isDragging, startX, scrollStart and currentX (as lastX)
  wheelVelocity,      \* Carousel.wheelVelocity
  wheelLastTime,      \* Carousel.wheelLastTime
  wheelAnimationFrame,\* Carousel.wheelAnimationFrame, 0 for null
  rafQueue,           \* frames requested from the host and not yet run or cancelled
  loopTimeouts,       \* pending setTimeout(handleInfiniteScroll, 10) callbacks
  scrollEventPending, \* the host owes the track a native 'scroll' event
  resizePending,      \* the ResizeObserver owes a callback
  destroyed,          \* destroy() has run
  deceleration,       \* DragHandler.config.deceleration, in percent
  now,                \* the last value performance.now() returned
  inputs,             \* input events and API calls the behaviour may still take
  lastOp,             \* the handler that ran last: its name, x (the index given
                      \* to scrollTo, the position found by handleInfiniteScroll,
                      \* the index getSelectedIndex returned, the clientX of a
                      \* drag-start or drag-move event), the kinds of frame
                      \* it cancelled, from (the selected index scrollNext or
                      \* scrollPrev read before scrolling, the size of the Set
                      \* on or off found) and the event type given to on or off
  emitted,            \* the events that handler passed to emit(), in order
  listeners,          \* Carousel.listeners: for each event type the callbacks of
                      \* its Set, in insertion order
  invoked             \* the calls emit() made during that handler, in order:
                      \* the callback and the event it was given

vars == << build, options, slidesLength, containerWidth, scrollLeft, scrollBehavior,
           slideWidth, originalCount, cloneCount, infiniteScroll, state,
           wheelVelocity, wheelLastTime, wheelAnimationFrame, rafQueue,
           loopTimeouts, scrollEventPending, resizePending, destroyed,
           deceleration, now, inputs, lastOp, emitted, listeners, invoked >>

configVars == << build, options, slidesLength, deceleration >>

(* --------------------------- inputs of the model ----------------------- *)

Builds == {"inline", "handlers", "utils"}

\* container widths the host may report, in units
Widths == {Px(3), Px(5)}

\* options.gap, in units
Gaps == {Px(1)}

\* clientX of pointer events, in units
PointerXs == {Px(0), Px(2)}

\* (deltaX, deltaY) of wheel events, in units
WheelDeltas == {<<Px(2), 0>>, <<0, -Px(2)>>}

\* milliseconds between two readings of the clock
ClockSteps == {0, FrameMs}

\* the values performance.now() may return at the next reading
ReadTimes == {t \in {now + dt : dt \in ClockSteps} : t <= MaxNow}

OptionSets ==
  [loop : BOOLEAN, dragFree : BOOLEAN, wheel : BOOLEAN, gap : Gaps, slidesPerView : {1}]

(* ------------------------- Carousel: derived values -------------------- *)

\* Carousel.calculateSlideWidth(): from the container width of the moment
currentSlideWidth == calculateSlideWidth(containerWidth, options.gap, options.slidesPerView)

\* "const slideWidth = this.calculateSlideWidth() + this.options.gap" (the pitch)
currentPitch == currentSlideWidth + options.gap

\* Carousel.getSelectedIndex() when track.scrollLeft is pos.  The inline build
\* takes both counts from this.slides.length, the others from the cached fields.
Carousel_getSelectedIndex(pos) ==
  IF build = "inline"
  THEN getSelectedIndex(pos, currentPitch, slidesLength, slidesLength, options.loop, slidesLength)
  ELSE getSelectedIndex(pos, currentPitch, cloneCount, originalCount, options.loop, slidesLength)

\* Carousel.handleInfiniteScroll() of the inline build: the position it leaves
Carousel_handleInfiniteScroll(pos) ==
  LET slideWidthVal == IF slideWidth > 0 THEN slideWidth ELSE currentSlideWidth
      step          == slideWidthVal + options.gap
      totalSlides   == originalCount + cloneCount * 2
      totalWidth    == totalSlides * step
      cloneWidth    == cloneCount * step
      offset        == originalCount * step
  IN  IF options.loop /\ originalCount > 0
      THEN IF pos < cloneWidth - step
           THEN pos + offset
           ELSE IF pos > totalWidth - cloneWidth + step
                THEN pos - offset
                ELSE pos
      ELSE pos

\* "this.infiniteScroll?.handleInfiniteScroll()": the position it leaves
infiniteScrollCall(pos) ==
  IF infiniteScroll.exists
  THEN handleInfiniteScroll(infiniteScroll.enabled, infiniteScroll.params, pos)
  ELSE pos

\* the loop step a Carousel handler takes after writing pos: the inline build
\* calls its own handleInfiniteScroll under "if (this.options.loop)"
loopStep(pos) ==
  IF build = "inline"
  THEN IF options.loop THEN Carousel_handleInfiniteScroll(pos) ELSE pos
  ELSE infiniteScrollCall(pos)

\* the DragHandler exists (handlers, utils: "if (this.options.dragFree)");
\* the inline build always binds its own pointer listeners
hasPointerListeners == build = "inline" \/ options.dragFree

hasDragHandler == build # "inline" /\ options.dragFree

Event(type, index) == [type |-> type, index |-> index]

Op(name, x) ==
  [name |-> name, x |-> x, cancelled |-> {}, from |-> 0, type |-> "none"]

\* a handler that leaves the frame queue queueAfter: the frames of rafQueue
\* missing from it are the ones it cancelled
OpCancelling(name, queueAfter) ==
  [name |-> name, x |-> 0, cancelled |-> {f.kind : f \in rafQueue \ queueAfter},
   from |-> 0, type |-> "none"]

(* ----------------------- host: animation frames ------------------------ *)

\* handles in use: requested frames and the handles the program still holds
usedHandles ==
  {f.id : f \in rafQueue} \cup {state.momentumAnimation, wheelAnimationFrame}

\* requestAnimationFrame returns a handle that is positive and not in use;
\* running holds the handle of the frame whose callback is executing
freshHandleExcept(running) ==
  CHOOSE n \in 1..(Cardinality(usedHandles) + 1) : n \notin (usedHandles \ running)

freshHandle == freshHandleExcept({})

Frame(id, kind) == [id |-> id, kind |-> kind]

\* a cancelAnimationFrame that leaves the frame scheduled
cancelAnimationFrameKeeps(queue, handle) == queue

\* cancelAnimationFrame(handle)
cancelAnimationFrame(queue, handle) == {f \in queue : f.id # handle}

(* ------------------------------ subscribers ---------------------------- *)

\* CarouselEventType
EventTypes == {"scroll", "select"}

\* the callback functions subscribers pass, by identity
Callbacks == 1..MaxCallbacks

\* "new Map()": no callback for any type
noListeners == [type \in EventTypes |-> << >>]

\* an add that appends the callback even when the Set holds it
SetAddAgain(callbacks, callback) == Append(callbacks, callback)

\* an add that puts a new callback before the ones the Set holds
SetAddFirst(callbacks, callback) ==
  IF \E i \in 1..Len(callbacks) : callbacks[i] = callback
  THEN callbacks
  ELSE << callback >> \o callbacks

\* Set.add: insertion order is kept, a callback already in the Set stays once
SetAdd(callbacks, callback) ==
  IF \E i \in 1..Len(callbacks) : callbacks[i] = callback
  THEN callbacks
  ELSE Append(callbacks, callback)

\* a delete that leaves the callback in the Set
SetDeleteKeeps(callbacks, callback) == callbacks

\* Set.delete
SetDelete(callbacks, callback) ==
  SelectSeq(callbacks, LAMBDA c : c # callback)

\* Carousel.emit(event) with the subscribers ls: the calls it makes, in order
emit(ls, event) ==
  [i \in 1..Len(ls[event.type]) |-> [callback |-> ls[event.type][i], event |-> event]]

\* the calls made for the events a handler emits, one emit after the other
RECURSIVE emitAll(_, _)
emitAll(ls, events) ==
  IF events = << >> THEN << >>
  ELSE emit(ls, Head(events)) \o emitAll(ls, Tail(events))

(* --------------------------------- Init -------------------------------- *)

initialDragState ==
  [isDragging |-> FALSE, startX |-> 0, scrollStart |-> 0, lastX |-> 0,
   lastTime |-> 0, velocity |-> 0, momentumAnimation |-> 0]

\* the InfiniteScroll a constructor creates: handlers creates it with the
\* DragHandler (enabled: options.loop), utils creates it when options.loop
newInfiniteScroll(b, opts, count, width) ==
  [exists  |-> IF b = "handlers" THEN opts.dragFree
               ELSE IF b = "utils" THEN opts.loop ELSE FALSE,
   enabled |-> opts.loop,
   params  |-> [slideWidth |-> width, gap |-> opts.gap,
                originalCount |-> count, cloneCount |-> count]]

\* the state a Carousel constructor leaves, for every build, option set, slide
\* count and container width
Constructed ==
  /\ build \in Builds
  /\ options \in OptionSets
  /\ slidesLength \in 1..MaxSlides
  /\ containerWidth \in Widths
  /\ scrollLeft = 0
  /\ scrollBehavior = "auto"
  /\ originalCount = slidesLength
  /\ cloneCount = originalCount
  /\ slideWidth = calculateSlideWidth(containerWidth, options.gap, options.slidesPerView)
  /\ infiniteScroll = newInfiniteScroll(build, options, slidesLength, slideWidth)
  /\ state = initialDragState
  /\ wheelVelocity = 0
  /\ wheelLastTime = 0
  /\ wheelAnimationFrame = 0
  /\ rafQueue = {}
  /\ loopTimeouts = 0
  /\ scrollEventPending = FALSE
  /\ resizePending = FALSE
  /\ destroyed = FALSE
  /\ now = StartMs
  /\ lastOp = Op("constructor", 0)
  /\ emitted = << >>
  /\ listeners = noListeners
  /\ invoked = << >>

\* the container width at construction (containerResize reaches the others)
InitialWidth == Px(3)

\* Spec starts every build in the narrow container.  options.wheel is read by
\* the utils build alone (part_002:405), so it varies there only.
Init ==
  /\ Constructed
  /\ containerWidth = InitialWidth
  /\ (build # "utils" => options.wheel)
  /\ deceleration = DragDecelerationPct
  /\ inputs = MaxInputs

(* --------------------------- shared steps ------------------------------ *)

\* the history a handler leaves: which handler, what it emitted and which
\* callbacks emit() called with it; the subscribers stay as they are
Record(op, events) ==
  /\ lastOp' = op
  /\ emitted' = events
  /\ invoked' = emitAll(listeners, events)
  /\ UNCHANGED listeners

\* the step is an input event or an API call: one of those the behaviour may take
Input ==
  /\ inputs > 0
  /\ inputs' = inputs - 1

\* the step is a callback the host owes the program
Callback == UNCHANGED inputs

\* a write of track.scrollLeft; the host owes a native 'scroll' event when the
\* position changed (only the utils build listens for it).  A write of NaN
\* happens on an empty track only, which the host cannot move.
SetScroll(pos) ==
  /\ scrollLeft' = pos
  /\ scrollEventPending' =
       (build = "utils" /\ (scrollEventPending \/ (pos # scrollLeft /\ pos # NaN)))

(* ------------------------------ DragHandler ---------------------------- *)

\* a cancelMomentum that forgets the handle but leaves the frame scheduled
cancelMomentumNullsOnly(queue, st) ==
  [queue |-> queue, state |-> [st EXCEPT !.momentumAnimation = 0]]

\* DragHandler.cancelMomentum on the frame queue and the drag state
cancelMomentum(queue, st) ==
  IF st.momentumAnimation # 0
  THEN [queue |-> cancelAnimationFrame(queue, st.momentumAnimation),
        state |-> [st EXCEPT !.momentumAnimation = 0]]
  ELSE [queue |-> queue, state |-> st]

\* DragHandler.startMomentum: "momentumAnimation = requestAnimationFrame(animate)"
startMomentum(queue, st) ==
  [queue |-> queue \cup {Frame(freshHandle, "drag")},
   state |-> [st EXCEPT !.momentumAnimation = freshHandle]]

\* a velocity in pixels per millisecond, without the factor 16
dragVelocityPerMs(st, x, t) ==
  LET timeDelta == t - st.lastTime
      deltaX    == st.lastX - x
  IN  IF timeDelta > 0 THEN TruncDiv(deltaX, timeDelta) ELSE st.velocity

\* the velocity handleDragMove computes from a sample x read at time t
dragVelocity(st, x, t) ==
  LET timeDelta == t - st.lastTime
      deltaX    == st.lastX - x
  IN  IF timeDelta > 0 THEN TruncDiv(deltaX * FrameMs, timeDelta) ELSE st.velocity

\* a position computed from where the previous move left the track
dragTargetFromLast(st, x) == scrollLeft + (st.lastX - x)

\* the scroll position handleDragMove writes for a pointer at x
dragTarget(st, x) == st.scrollStart + (st.startX - x)

\* a drag-start that keeps the velocity of the drag before
dragStartedKeepsVelocity(st, x, t) ==
  [st EXCEPT !.isDragging = TRUE, !.startX = x, !.scrollStart = scrollLeft,
             !.lastX = x, !.lastTime = t]

\* the DragState handleDragStart leaves for a pointer at x read at time t
dragStarted(st, x, t) ==
  [st EXCEPT !.isDragging = TRUE, !.startX = x, !.scrollStart = scrollLeft,
             !.lastX = x, !.lastTime = t, !.velocity = 0]

\* a guard that lets every pointer event through
dragInProgressAlways == TRUE

\* "if (!this.state.isDragging) return" of handleDragMove and handleDragEnd
\* passes
dragInProgress == state.isDragging

\* mousedown / touchstart on the track.  The DragHandler reads the clock (the
\* inline build does not); the reading is the one the clock gave last.
handleDragStart(x) ==
  /\ hasPointerListeners
  /\ Input
  /\ IF build = "inline"
     THEN /\ IF ~options.dragFree
             THEN UNCHANGED << state, scrollBehavior >>
             ELSE /\ state' = [state EXCEPT !.isDragging = TRUE, !.startX = x,
                                            !.scrollStart = scrollLeft]
                  /\ scrollBehavior' = "auto"
          /\ UNCHANGED rafQueue
          /\ Record(Op("handleDragStart", x), << >>)
     ELSE LET c == cancelMomentum(rafQueue, state)
          IN  /\ rafQueue' = c.queue
              /\ state' = dragStarted(c.state, x, now)
              /\ scrollBehavior' = "auto"
              /\ Record([OpCancelling("handleDragStart", c.queue) EXCEPT !.x = x], << >>)
  /\ UNCHANGED << configVars, containerWidth, scrollLeft, slideWidth, originalCount,
                  cloneCount, infiniteScroll, wheelVelocity, wheelLastTime,
                  wheelAnimationFrame, loopTimeouts, scrollEventPending,
                  resizePending, destroyed, now >>

\* mousemove on the window / touchmove on the track; t is the clock reading
\* the DragHandler takes while a drag is in progress
handleDragMove(x, t) ==
  /\ hasPointerListeners
  /\ Input
  /\ IF ~dragInProgress
     THEN /\ t = now
          /\ Record(Op("handleDragMove", x), << >>)
          /\ UNCHANGED << state, scrollLeft, scrollEventPending >>
     ELSE LET newScrollLeft == dragTarget(state, x)
              looped        == IF build = "inline"
                               THEN IF options.loop
                                    THEN Carousel_handleInfiniteScroll(newScrollLeft)
                                    ELSE newScrollLeft
                               ELSE infiniteScrollCall(newScrollLeft)
          IN  /\ IF build = "inline"
                 THEN t = now /\ state' = [state EXCEPT !.lastX = x]
                 ELSE state' = [state EXCEPT !.velocity = dragVelocity(state, x, t),
                                             !.lastX = x, !.lastTime = t]
              /\ SetScroll(looped)
              /\ Record(Op("handleDragMove", x),
                        << Event("scroll", Carousel_getSelectedIndex(looped)) >>)
  /\ now' = t
  /\ UNCHANGED << configVars, containerWidth, scrollBehavior, slideWidth, originalCount,
                  cloneCount, infiniteScroll, wheelVelocity, wheelLastTime,
                  wheelAnimationFrame, rafQueue, loopTimeouts, resizePending,
                  destroyed >>

\* mouseup on the window / touchend on the track
handleDragEnd ==
  /\ hasPointerListeners
  /\ Input
  /\ IF ~dragInProgress
     THEN /\ Record(Op("handleDragEnd", 0), << >>)
          /\ UNCHANGED << state, scrollLeft, scrollEventPending, scrollBehavior, rafQueue >>
     ELSE IF build = "inline"
          THEN LET looped == IF options.loop
                             THEN Carousel_handleInfiniteScroll(scrollLeft)
                             ELSE scrollLeft
               IN  /\ state' = [state EXCEPT !.isDragging = FALSE]
                   /\ scrollBehavior' = "smooth"
                   /\ SetScroll(looped)
                   /\ Record(Op("handleDragEnd", 0),
                             << Event("select", Carousel_getSelectedIndex(looped)) >>)
                   /\ UNCHANGED rafQueue
          ELSE LET released == [state EXCEPT !.isDragging = FALSE]
                   looped   == infiniteScrollCall(scrollLeft)
               IN  IF AboveMinVelocity(state.velocity)
                   THEN LET m == startMomentum(rafQueue, released)
                        IN  /\ state' = m.state
                            /\ rafQueue' = m.queue
                            /\ SetScroll(looped)
                            /\ Record(Op("handleDragEnd", 0), << >>)
                            /\ UNCHANGED scrollBehavior
                   ELSE /\ state' = released
                        /\ scrollBehavior' = "smooth"
                        /\ SetScroll(looped)
                        /\ Record(Op("handleDragEnd", 0),
                                  << Event("scroll", Carousel_getSelectedIndex(scrollLeft)) >>)
                        /\ UNCHANGED rafQueue
  /\ UNCHANGED << configVars, containerWidth, slideWidth, originalCount, cloneCount,
                  infiniteScroll, wheelVelocity, wheelLastTime, wheelAnimationFrame,
                  loopTimeouts, resizePending, destroyed, now >>

\* a tick that moves the track by the velocity it had before the decay
animateBeforeDecay(f) ==
  LET velocity == Decay(state.velocity, deceleration)
      queue    == rafQueue \ {f}
  IN  IF BelowMinVelocity(velocity)
      THEN [state  |-> [state EXCEPT !.velocity = velocity, !.momentumAnimation = 0],
            queue  |-> queue,
            scroll |-> scrollLeft,
            behavior |-> "smooth",
            events |-> << Event("scroll", Carousel_getSelectedIndex(scrollLeft)) >>]
      ELSE LET looped == infiniteScrollCall(scrollLeft + state.velocity)
               next   == freshHandleExcept({f.id})
           IN  [state  |-> [state EXCEPT !.velocity = velocity, !.momentumAnimation = next],
                queue  |-> queue \cup {Frame(next, "drag")},
                scroll |-> looped,
                behavior |-> scrollBehavior,
                events |-> << Event("scroll", Carousel_getSelectedIndex(looped)) >>]

\* what animate() of DragHandler.startMomentum leaves when it runs as frame f:
\* the decayed velocity, and either the settled state or the next frame
animate(f) ==
  LET velocity == Decay(state.velocity, deceleration)
      queue    == rafQueue \ {f}
  IN  IF BelowMinVelocity(velocity)
      THEN [state  |-> [state EXCEPT !.velocity = velocity, !.momentumAnimation = 0],
            queue  |-> queue,
            scroll |-> scrollLeft,
            behavior |-> "smooth",
            events |-> << Event("scroll", Carousel_getSelectedIndex(scrollLeft)) >>]
      ELSE LET looped == infiniteScrollCall(scrollLeft + velocity)
               next   == freshHandleExcept({f.id})
           IN  [state  |-> [state EXCEPT !.velocity = velocity, !.momentumAnimation = next],
                queue  |-> queue \cup {Frame(next, "drag")},
                scroll |-> looped,
                behavior |-> scrollBehavior,
                events |-> << Event("scroll", Carousel_getSelectedIndex(looped)) >>]

\* the host runs the frame DragHandler.startMomentum requested
dragMomentumFrame ==
  \E f \in rafQueue :
    /\ f.kind = "drag"
    /\ Callback
    /\ LET a == animate(f)
       IN  /\ state' = a.state
           /\ rafQueue' = a.queue
           /\ scrollBehavior' = a.behavior
           /\ SetScroll(a.scroll)
           /\ Record(Op("dragMomentumFrame", 0), a.events)
    /\ UNCHANGED << configVars, containerWidth, slideWidth, originalCount, cloneCount,
                    infiniteScroll, wheelVelocity, wheelLastTime, wheelAnimationFrame,
                    loopTimeouts, resizePending, destroyed, now >>

(* ------------------------------- wheel --------------------------------- *)

\* Carousel.startWheelMomentum (inline, handlers): cancel the frame it holds,
\* then "wheelAnimationFrame = requestAnimationFrame(animate)"
startWheelMomentum(queue, handle) ==
  LET kept == IF handle # 0 THEN cancelAnimationFrame(queue, handle) ELSE queue
  IN  [queue |-> kept \cup {Frame(freshHandle, "wheel")}, handle |-> freshHandle]

\* the velocity handleWheel (inline, handlers) takes from an event read at time t
wheelVelocityOf(deltaX, deltaY, t) ==
  LET timeDelta == t - wheelLastTime
      delta     == IF Abs(deltaX) < SubPixel THEN deltaY ELSE deltaX
  IN  IF timeDelta < WheelQuickMs THEN delta ELSE TruncDiv(delta, 2)

\* Carousel.handleWheel of the utils build; x of the record is event.deltaX
handleWheelUtils(deltaX) ==
  IF ~options.wheel \/ deltaX = 0
  THEN /\ Record(Op("handleWheel", deltaX), << >>)
       /\ UNCHANGED << state, rafQueue, scrollBehavior, scrollLeft, scrollEventPending >>
  ELSE LET c         == IF hasDragHandler
                        THEN cancelMomentum(rafQueue, state)
                        ELSE [queue |-> rafQueue, state |-> state]
           newScroll == scrollLeft + deltaX
           looped    == infiniteScrollCall(newScroll)
       IN  /\ state' = c.state
           /\ rafQueue' = c.queue
           /\ scrollBehavior' = "auto"
           /\ SetScroll(looped)
           /\ Record([OpCancelling("handleWheel", c.queue) EXCEPT !.x = deltaX],
                     << Event("scroll", Carousel_getSelectedIndex(looped)) >>)

\* Carousel.handleWheel of the inline and handlers builds, reading the clock at t
handleWheelMomentum(deltaX, deltaY, t) ==
  LET velocity  == wheelVelocityOf(deltaX, deltaY, t)
      newScroll == scrollLeft + velocity
      looped    == loopStep(newScroll)
      m         == startWheelMomentum(rafQueue, wheelAnimationFrame)
  IN  /\ wheelLastTime' = t
      /\ wheelVelocity' = velocity
      /\ SetScroll(looped)
      /\ IF Abs(velocity) > SubPixel
         THEN /\ rafQueue' = m.queue
              /\ wheelAnimationFrame' = m.handle
              /\ Record([OpCancelling("handleWheel", m.queue) EXCEPT !.x = deltaX],
                        << Event("scroll", Carousel_getSelectedIndex(looped)) >>)
         ELSE /\ UNCHANGED << rafQueue, wheelAnimationFrame >>
              /\ Record(Op("handleWheel", deltaX),
                        << Event("scroll", Carousel_getSelectedIndex(looped)) >>)

\* 'wheel' on the track
handleWheel(deltaX, deltaY, t) ==
  /\ Input
  /\ IF build = "utils"
     THEN /\ t = now
          /\ handleWheelUtils(deltaX)
          /\ UNCHANGED << wheelVelocity, wheelLastTime, wheelAnimationFrame >>
     ELSE /\ handleWheelMomentum(deltaX, deltaY, t)
          /\ UNCHANGED << state, scrollBehavior >>
  /\ now' = t
  /\ UNCHANGED << configVars, containerWidth, slideWidth, originalCount, cloneCount,
                  infiniteScroll, loopTimeouts, resizePending, destroyed >>

\* what animate() of Carousel.startWheelMomentum leaves when it runs as frame f
wheelAnimate(f) ==
  LET velocity == Decay(wheelVelocity, WheelDecelerationPct)
      queue    == rafQueue \ {f}
  IN  IF BelowMinVelocity(velocity)
      THEN [velocity |-> velocity, handle |-> 0, queue |-> queue,
            scroll |-> scrollLeft,
            events |-> << Event("select", Carousel_getSelectedIndex(scrollLeft)) >>]
      ELSE LET next == freshHandleExcept({f.id})
           IN  [velocity |-> velocity, handle |-> next,
                queue |-> queue \cup {Frame(next, "wheel")},
                scroll |-> loopStep(scrollLeft + velocity),
                events |-> << >>]

\* the host runs the frame startWheelMomentum requested
wheelMomentumFrame ==
  \E f \in rafQueue :
    /\ f.kind = "wheel"
    /\ Callback
    /\ LET a == wheelAnimate(f)
       IN  /\ wheelVelocity' = a.velocity
           /\ wheelAnimationFrame' = a.handle
           /\ rafQueue' = a.queue
           /\ SetScroll(a.scroll)
           /\ Record(Op("wheelMomentumFrame", 0), a.events)
    /\ UNCHANGED << configVars, containerWidth, scrollBehavior, slideWidth, originalCount,
                    cloneCount, infiniteScroll, state, wheelLastTime, loopTimeouts,
                    resizePending, destroyed, now >>

(* --------------------------- programmatic scroll ----------------------- *)

\* "if (index < 0 || index >= this.slides.length) return" lacking the upper end
indexOutOfRangeBelowOnly(index) == index < 0

\* the guard of Carousel.scrollTo; both comparisons are false for NaN
indexOutOfRange(index) == index # NaN /\ (index < 0 \/ index >= slidesLength)

\* the body of Carousel.scrollTo(index, smooth), run as the public method name;
\* scrollNext and scrollPrev read the selected index before they call it
scrollToAs(name, index, smooth) ==
  /\ Input
  /\ IF indexOutOfRange(index)
     THEN UNCHANGED << scrollLeft, scrollEventPending, scrollBehavior, loopTimeouts >>
     ELSE LET cc           == IF build = "inline" THEN slidesLength ELSE cloneCount
              targetScroll == calculateTargetScroll(index, currentPitch, cc, options.loop)
          IN  /\ scrollBehavior' = IF smooth THEN "smooth" ELSE "auto"
              /\ SetScroll(targetScroll)
              /\ loopTimeouts' = IF build = "inline" /\ ~smooth /\ options.loop
                                 THEN loopTimeouts + 1 ELSE loopTimeouts
  /\ Record([Op(name, index) EXCEPT
               !.from = IF name = "scrollTo" THEN 0
                        ELSE Carousel_getSelectedIndex(scrollLeft)],
            << >>)
  /\ UNCHANGED << configVars, containerWidth, slideWidth, originalCount, cloneCount,
                  infiniteScroll, state, wheelVelocity, wheelLastTime,
                  wheelAnimationFrame, rafQueue, resizePending, destroyed, now >>

\* Carousel.scrollTo(index, smooth)
scrollTo(index, smooth) ==
  /\ (build = "inline" /\ ~smooth /\ options.loop) => loopTimeouts < MaxTimers
  /\ scrollToAs("scrollTo", index, smooth)

\* the index after the selected one, without the wrap to 0
nextIndexNoWrap == Carousel_getSelectedIndex(scrollLeft) + 1

\* the index scrollNext() passes to scrollTo
nextIndex == JsRem(Carousel_getSelectedIndex(scrollLeft) + 1, slidesLength)

\* the index scrollPrev() passes to scrollTo
prevIndex == JsRem(Carousel_getSelectedIndex(scrollLeft) - 1 + slidesLength, slidesLength)

\* Carousel.scrollNext()
scrollNext == scrollToAs("scrollNext", nextIndex, TRUE)

\* Carousel.scrollPrev()
scrollPrev == scrollToAs("scrollPrev", prevIndex, TRUE)

\* the inline build's "setTimeout(() => this.handleInfiniteScroll(), 10)" fires
loopTimeout ==
  /\ loopTimeouts > 0
  /\ Callback
  /\ loopTimeouts' = loopTimeouts - 1
  /\ SetScroll(Carousel_handleInfiniteScroll(scrollLeft))
  /\ Record(Op("loopTimeout", 0), << >>)
  /\ UNCHANGED << configVars, containerWidth, scrollBehavior, slideWidth, originalCount,
                  cloneCount, infiniteScroll, state, wheelVelocity, wheelLastTime,
                  wheelAnimationFrame, rafQueue, resizePending, destroyed, now >>

\* the utils build's listener of the track's native 'scroll' event
handleNativeScroll ==
  /\ build = "utils"
  /\ scrollEventPending
  /\ Callback
  /\ LET looped == infiniteScrollCall(scrollLeft)
     IN  /\ scrollLeft' = looped
         /\ scrollEventPending' = (looped # scrollLeft)
         /\ Record(Op("handleNativeScroll", 0),
                   << Event("scroll", Carousel_getSelectedIndex(looped)) >>)
  /\ UNCHANGED << configVars, containerWidth, scrollBehavior, slideWidth, originalCount,
                  cloneCount, infiniteScroll, state, wheelVelocity, wheelLastTime,
                  wheelAnimationFrame, rafQueue, loopTimeouts, resizePending,
                  destroyed, now >>

(* ------------------------------- resize -------------------------------- *)

\* the host lays the container out at another width
containerResize(w) ==
  /\ w # containerWidth
  /\ Input
  /\ containerWidth' = w
  /\ resizePending' = ~destroyed
  /\ Record(Op("containerResize", 0), << >>)
  /\ UNCHANGED << configVars, scrollLeft, scrollBehavior, slideWidth, originalCount,
                  cloneCount, infiniteScroll, state, wheelVelocity, wheelLastTime,
                  wheelAnimationFrame, rafQueue, loopTimeouts, scrollEventPending,
                  destroyed, now >>

\* the ResizeObserver callback: Carousel.updateDimensions().  The inline build
\* only restyles the slides; the others refresh the cached width and the
\* InfiniteScroll parameters.
updateDimensions ==
  /\ resizePending
  /\ Callback
  /\ resizePending' = FALSE
  /\ IF build = "inline"
     THEN UNCHANGED << slideWidth, infiniteScroll >>
     ELSE /\ slideWidth' = currentSlideWidth
          /\ infiniteScroll' =
               IF infiniteScroll.exists
               THEN [infiniteScroll EXCEPT
                       !.params = updateParams(@, currentSlideWidth, options.gap)]
               ELSE infiniteScroll
  /\ Record(Op("updateDimensions", 0), << >>)
  /\ UNCHANGED << configVars, containerWidth, scrollLeft, scrollBehavior, originalCount,
                  cloneCount, state, wheelVelocity, wheelLastTime, wheelAnimationFrame,
                  rafQueue, loopTimeouts, scrollEventPending, destroyed, now >>

(* ------------------------------- destroy ------------------------------- *)

\* Carousel.on(type, callback)
on(type, callback) ==
  /\ Input
  /\ listeners' = [listeners EXCEPT ![type] = SetAdd(@, callback)]
  /\ lastOp' = [Op("on", callback) EXCEPT !.type = type,
                                          !.from = Len(listeners[type])]
  /\ emitted' = << >>
  /\ invoked' = << >>
  /\ UNCHANGED << configVars, containerWidth, scrollLeft, scrollBehavior, slideWidth,
                  originalCount, cloneCount, infiniteScroll, state, wheelVelocity,
                  wheelLastTime, wheelAnimationFrame, rafQueue, loopTimeouts,
                  scrollEventPending, resizePending, destroyed, now >>

\* Carousel.off(type, callback)
off(type, callback) ==
  /\ Input
  /\ listeners' = [listeners EXCEPT ![type] = SetDelete(@, callback)]
  /\ lastOp' = [Op("off", callback) EXCEPT !.type = type,
                                           !.from = Len(listeners[type])]
  /\ emitted' = << >>
  /\ invoked' = << >>
  /\ UNCHANGED << configVars, containerWidth, scrollLeft, scrollBehavior, slideWidth,
                  originalCount, cloneCount, infiniteScroll, state, wheelVelocity,
                  wheelLastTime, wheelAnimationFrame, rafQueue, loopTimeouts,
                  scrollEventPending, resizePending, destroyed, now >>

\* Carousel.destroy().  handlers cancels the wheel frame (keeping the handle)
\* and destroys the DragHandler; utils destroys the DragHandler; inline cancels
\* only its animationFrame, which nothing ever sets.  All clear the listeners.
destroy ==
  /\ ~destroyed
  /\ Input
  /\ destroyed' = TRUE
  /\ resizePending' = FALSE
  /\ LET afterWheel == IF build = "handlers" /\ wheelAnimationFrame # 0
                       THEN cancelAnimationFrame(rafQueue, wheelAnimationFrame)
                       ELSE rafQueue
         c          == IF hasDragHandler
                       THEN cancelMomentum(afterWheel, state)
                       ELSE [queue |-> afterWheel, state |-> state]
     IN  /\ rafQueue' = c.queue
         /\ state' = c.state
         /\ lastOp' = OpCancelling("destroy", c.queue)
  /\ emitted' = << >>
  /\ invoked' = << >>
  /\ listeners' = noListeners
  /\ UNCHANGED << configVars, containerWidth, scrollLeft, scrollBehavior, slideWidth,
                  originalCount, cloneCount, infiniteScroll, wheelVelocity,
                  wheelLastTime, wheelAnimationFrame, loopTimeouts,
                  scrollEventPending, now >>

(* ----------------------------- specification --------------------------- *)

Next ==
  \/ \E x \in PointerXs : handleDragStart(x)
  \/ \E x \in PointerXs, t \in ReadTimes : handleDragMove(x, t)
  \/ handleDragEnd
  \/ dragMomentumFrame
  \/ \E d \in WheelDeltas, t \in ReadTimes : handleWheel(d[1], d[2], t)
  \/ wheelMomentumFrame
  \/ \E i \in -1..MaxSlides, smooth \in BOOLEAN : scrollTo(i, smooth)
  \/ scrollNext
  \/ scrollPrev
  \/ loopTimeout
  \/ handleNativeScroll
  \/ \E w \in Widths : containerResize(w)
  \/ updateDimensions
  \/ destroy

Spec == Init /\ [][Next]_vars

(* ------------------ drag sessions of the DragHandler builds ------------ *)

\* the builds that delegate to DragHandler, dragFree on, followed through
\* longer sequences of pointer and wheel events
InitDrag ==
  /\ Constructed
  /\ hasDragHandler
  /\ options.wheel
  /\ containerWidth = InitialWidth
  /\ deceleration = DragDecelerationPct
  /\ inputs = MaxDragInputs

NextDrag ==
  \/ \E x \in PointerXs : handleDragStart(x)
  \/ \E x \in PointerXs, t \in ReadTimes : handleDragMove(x, t)
  \/ handleDragEnd
  \/ dragMomentumFrame
  \/ \E d \in WheelDeltas, t \in ReadTimes : handleWheel(d[1], d[2], t)
  \/ wheelMomentumFrame
  \/ handleNativeScroll
  \/ destroy

SpecDrag == InitDrag /\ [][NextDrag]_vars

(* --------------------- momentum runs, frames delivered ----------------- *)

\* DragHandlerConfig.deceleration values a DragHandler may be given, in percent
DecelerationPcts == {50, DragDecelerationPct, 99}

\* clientX of pointer events for fast and slow drags, in units
TravelXs == {Px(0), Px(1), Px(MaxTravel - 1), Px(MaxTravel)}

\* (deltaX, deltaY) of heavy wheel events, in units
TravelDeltas == {<<0, -Px(MaxTravel)>>}

\* every build with dragFree on; the DragHandler's deceleration is any of
\* DecelerationPcts (the Carousel builds pass none, which leaves 0.92)
InitMomentum ==
  /\ Constructed
  /\ options.dragFree
  /\ options.wheel
  /\ slidesLength = MaxSlides
  /\ containerWidth = InitialWidth
  /\ deceleration \in IF hasDragHandler THEN DecelerationPcts ELSE {DragDecelerationPct}
  /\ inputs = MaxMomentumInputs

NextMomentum ==
  \/ \E x \in TravelXs : handleDragStart(x)
  \/ \E x \in TravelXs, t \in ReadTimes : handleDragMove(x, t)
  \/ handleDragEnd
  \/ dragMomentumFrame
  \/ \E d \in TravelDeltas, t \in ReadTimes : handleWheel(d[1], d[2], t)
  \/ wheelMomentumFrame
  \/ handleNativeScroll

\* the host delivers every animation frame it was asked for and that was not
\* cancelled (requestAnimationFrame), and every native scroll event it owes
SpecMomentum ==
  /\ InitMomentum
  /\ [][NextMomentum]_vars
  /\ WF_vars(dragMomentumFrame)
  /\ WF_vars(wheelMomentumFrame)
  /\ WF_vars(handleNativeScroll)

(* ------------------- subscribers and notifications --------------------- *)

\* every build with the wheel enabled and no DragHandler
InitEvents ==
  /\ Constructed
  /\ options.wheel
  /\ ~options.dragFree
  /\ containerWidth = InitialWidth
  /\ deceleration = DragDecelerationPct
  /\ inputs = MaxEventInputs

NextEvents ==
  \/ \E type \in EventTypes, callback \in Callbacks : on(type, callback)
  \/ \E type \in EventTypes, callback \in Callbacks : off(type, callback)
  \/ \E d \in WheelDeltas, t \in ReadTimes : handleWheel(d[1], d[2], t)
  \/ wheelMomentumFrame
  \/ handleNativeScroll
  \/ destroy

\* subscribers registering and unregistering while wheel events emit
SpecEvents == InitEvents /\ [][NextEvents]_vars

(* ------------------ drag samples of the DragHandler -------------------- *)

\* clientX of the samples of a drag, in units
SampleXs == {Px(80), Px(100)}

\* milliseconds between two samples
SampleSteps == {0, 5, FrameMs}

\* the values performance.now() may return at the next sample
SampleTimes == {t \in {now + dt : dt \in SampleSteps} : t <= MaxNow}

NextSample ==
  \/ \E x \in SampleXs : handleDragStart(x)
  \/ \E x \in SampleXs, t \in SampleTimes : handleDragMove(x, t)
  \/ handleDragEnd
  \/ dragMomentumFrame
  \/ handleNativeScroll

\* the DragHandler builds, dragFree on
InitSample ==
  /\ Constructed
  /\ hasDragHandler
  /\ options.wheel
  /\ containerWidth = InitialWidth
  /\ deceleration = DragDecelerationPct
  /\ inputs = MaxSampleInputs

\* the DragHandler builds sampled at uneven intervals
SpecSample == InitSample /\ [][NextSample]_vars

(* --------------- InfiniteScroll on its own: the loop jump -------------- *)

\* LoopParams.slideWidth and LoopParams.gap given to an InfiniteScroll, in units
LoopSlideWidths == {Px(2), Px(100)}

LoopGaps == {Px(1), Px(20)}

\* positions the InfiniteScroll may find: one unit around every multiple of
\* the step, from before the track to beyond its end, and 50 px
LoopPositions(step) ==
  {k * step + d : k \in (-(MaxLoopSlides + 2))..(4 * MaxLoopSlides + 2), d \in {-1, 0, 1}}
    \cup {Px(50)}

\* an InfiniteScroll constructed with any LoopParams and either value of
\* config.enabled, over a track at any position
InitLoop ==
  /\ build = "handlers"
  /\ options \in [loop : BOOLEAN, dragFree : {FALSE}, wheel : {FALSE}, gap : LoopGaps,
                   slidesPerView : {1}]
  /\ slidesLength \in 0..MaxLoopSlides
  /\ containerWidth \in LoopSlideWidths
  /\ slideWidth = containerWidth
  /\ originalCount = slidesLength
  /\ cloneCount \in 0..MaxLoopSlides
  /\ infiniteScroll = [exists |-> TRUE, enabled |-> options.loop,
                       params |-> [slideWidth |-> slideWidth, gap |-> options.gap,
                                   originalCount |-> originalCount,
                                   cloneCount |-> cloneCount]]
  /\ scrollLeft \in LoopPositions(slideWidth + options.gap)
  /\ scrollBehavior = "auto"
  /\ state = initialDragState
  /\ wheelVelocity = 0
  /\ wheelLastTime = 0
  /\ wheelAnimationFrame = 0
  /\ rafQueue = {}
  /\ loopTimeouts = 0
  /\ scrollEventPending = FALSE
  /\ resizePending = FALSE
  /\ destroyed = FALSE
  /\ deceleration = DragDecelerationPct
  /\ now = StartMs
  /\ inputs = MaxCalls
  /\ lastOp = Op("constructor", 0)
  /\ emitted = << >>
  /\ listeners = noListeners
  /\ invoked = << >>

\* a call of InfiniteScroll.handleInfiniteScroll() by its owner
callHandleInfiniteScroll ==
  /\ infiniteScroll.exists
  /\ Input
  /\ SetScroll(infiniteScrollCall(scrollLeft))
  /\ Record(Op("handleInfiniteScroll", scrollLeft), << >>)
  /\ UNCHANGED << configVars, containerWidth, scrollBehavior, slideWidth, originalCount,
                  cloneCount, infiniteScroll, state, wheelVelocity, wheelLastTime,
                  wheelAnimationFrame, rafQueue, loopTimeouts, resizePending,
                  destroyed, now >>

NextLoop == callHandleInfiniteScroll

SpecLoop == InitLoop /\ [][NextLoop]_vars

(* ------------- scrollUtils on their own: index and position ------------ *)

\* pitches given to the index functions: slide widths of 1, 2 and 100 px
IndexSlideWidths == {Px(1)} \cup LoopSlideWidths

\* any pitch, loop flag, slide count and clone count; the slide count passed
\* as slidesLength is the number of original slides, as every caller passes it
InitIndex ==
  /\ build = "utils"
  /\ options \in [loop : BOOLEAN, dragFree : {FALSE}, wheel : {FALSE}, gap : LoopGaps,
                   slidesPerView : {1}]
  /\ slidesLength \in 1..MaxLoopSlides
  /\ containerWidth \in IndexSlideWidths
  /\ slideWidth = containerWidth
  /\ originalCount = slidesLength
  /\ cloneCount \in 0..MaxLoopSlides
  /\ infiniteScroll = newInfiniteScroll("inline", options, originalCount, slideWidth)
  /\ scrollLeft = 0
  /\ scrollBehavior = "auto"
  /\ state = initialDragState
  /\ wheelVelocity = 0
  /\ wheelLastTime = 0
  /\ wheelAnimationFrame = 0
  /\ rafQueue = {}
  /\ loopTimeouts = 0
  /\ scrollEventPending = FALSE
  /\ resizePending = FALSE
  /\ destroyed = FALSE
  /\ deceleration = DragDecelerationPct
  /\ now = StartMs
  /\ inputs = MaxCalls
  /\ lastOp = Op("constructor", 0)
  /\ emitted = << >>
  /\ listeners = noListeners
  /\ invoked = << >>

\* the track is put where calculateTargetScroll says slide index is
callCalculateTargetScroll(index) ==
  /\ Input
  /\ scrollLeft' = calculateTargetScroll(index, currentPitch, cloneCount, options.loop)
  /\ Record(Op("calculateTargetScroll", index), << >>)
  /\ UNCHANGED << configVars, containerWidth, scrollBehavior, slideWidth, originalCount,
                  cloneCount, infiniteScroll, state, wheelVelocity, wheelLastTime,
                  wheelAnimationFrame, rafQueue, loopTimeouts, scrollEventPending,
                  resizePending, destroyed, now >>

NextIndex == \E index \in 0..(originalCount - 1) : callCalculateTargetScroll(index)

SpecIndex == InitIndex /\ [][NextIndex]_vars

(* ------------- resizes down to a collapsed container ------------------- *)

\* container widths the host may report when the container can collapse
\* (offsetWidth is 0 for a hidden container) or grow to three times its width
ResizeWidths == Widths \cup {Px(0), 3 * InitialWidth}

NextResize ==
  \/ \E w \in ResizeWidths : containerResize(w)
  \/ updateDimensions
  \/ \E i \in 0..(MaxSlides - 1), smooth \in BOOLEAN : scrollTo(i, smooth)
  \/ loopTimeout
  \/ handleNativeScroll

SpecResize == Init /\ [][NextResize]_vars

(* ------------------------ a carousel of no slides ---------------------- *)

\* the state a Carousel constructor leaves over a container without children
InitEmpty ==
  /\ build \in Builds
  /\ options \in OptionSets
  /\ slidesLength = 0
  /\ containerWidth \in Widths
  /\ scrollLeft = 0
  /\ scrollBehavior = "auto"
  /\ originalCount = slidesLength
  /\ cloneCount = originalCount
  /\ slideWidth = calculateSlideWidth(containerWidth, options.gap, options.slidesPerView)
  /\ infiniteScroll = newInfiniteScroll(build, options, slidesLength, slideWidth)
  /\ state = initialDragState
  /\ wheelVelocity = 0
  /\ wheelLastTime = 0
  /\ wheelAnimationFrame = 0
  /\ rafQueue = {}
  /\ loopTimeouts = 0
  /\ scrollEventPending = FALSE
  /\ resizePending = FALSE
  /\ destroyed = FALSE
  /\ deceleration = DragDecelerationPct
  /\ now = StartMs
  /\ inputs = MaxCalls
  /\ lastOp = Op("constructor", 0)
  /\ emitted = << >>
  /\ listeners = noListeners
  /\ invoked = << >>

NextEmpty ==
  \/ \E i \in -1..MaxSlides, smooth \in BOOLEAN : scrollTo(i, smooth)
  \/ scrollNext
  \/ scrollPrev

SpecEmpty == InitEmpty /\ [][NextEmpty]_vars

(* ------------- scrollUtils on their own: the slide width --------------- *)

\* container widths, gaps and slidesPerView given to calculateSlideWidth
GeometryWidths == {Px(0), Px(10), Px(20), Px(320)}

GeometryGaps == {Px(0), Px(20)}

GeometrySlidesPerView == -1..3

\* any geometry; nothing has been computed yet ("private slideWidth = 0")
InitWidth ==
  /\ build \in Builds
  /\ options \in [loop : {FALSE}, dragFree : {FALSE}, wheel : {FALSE},
                   gap : GeometryGaps, slidesPerView : GeometrySlidesPerView]
  /\ slidesLength = 1
  /\ containerWidth \in GeometryWidths
  /\ slideWidth = 0
  /\ originalCount = slidesLength
  /\ cloneCount = originalCount
  /\ infiniteScroll = newInfiniteScroll("inline", options, originalCount, slideWidth)
  /\ scrollLeft = 0
  /\ scrollBehavior = "auto"
  /\ state = initialDragState
  /\ wheelVelocity = 0
  /\ wheelLastTime = 0
  /\ wheelAnimationFrame = 0
  /\ rafQueue = {}
  /\ loopTimeouts = 0
  /\ scrollEventPending = FALSE
  /\ resizePending = FALSE
  /\ destroyed = FALSE
  /\ deceleration = DragDecelerationPct
  /\ now = StartMs
  /\ inputs = MaxCalls
  /\ lastOp = Op("constructor", 0)
  /\ emitted = << >>
  /\ listeners = noListeners
  /\ invoked = << >>

\* calculateSlideWidth is called with the geometry of the moment; x is the
\* value of the double it returned
callCalculateSlideWidth ==
  /\ Input
  /\ Record(Op("calculateSlideWidth",
               calculateSlideWidth(containerWidth, options.gap, options.slidesPerView)),
            << >>)
  /\ UNCHANGED << configVars, containerWidth, scrollLeft, scrollBehavior, slideWidth,
                  originalCount, cloneCount, infiniteScroll, state, wheelVelocity,
                  wheelLastTime, wheelAnimationFrame, rafQueue, loopTimeouts,
                  scrollEventPending, resizePending, destroyed, now >>

NextWidth == callCalculateSlideWidth

SpecWidth == InitWidth /\ [][NextWidth]_vars

(* ------------- scrollUtils on their own: index of a position ----------- *)

\* positions getSelectedIndex may be given: the positions of LoopPositions and
\* the half-way points between two slides
SelectPositions(pitch) ==
  LoopPositions(pitch) \cup
    {k * pitch + pitch \div 2 : k \in (-(MaxLoopSlides + 2))..(3 * MaxLoopSlides + 2)}

\* getSelectedIndex is read with the track at pos; x is the index it returned
callGetSelectedIndex(pos) ==
  /\ Input
  /\ scrollLeft' = pos
  /\ Record(Op("getSelectedIndex",
               getSelectedIndex(pos, currentPitch, cloneCount, originalCount,
                                options.loop, slidesLength)), << >>)
  /\ UNCHANGED << configVars, containerWidth, scrollBehavior, slideWidth, originalCount,
                  cloneCount, infiniteScroll, state, wheelVelocity, wheelLastTime,
                  wheelAnimationFrame, rafQueue, loopTimeouts, scrollEventPending,
                  resizePending, destroyed, now >>

NextSelect == \E pos \in SelectPositions(currentPitch) : callGetSelectedIndex(pos)

\* the pure getSelectedIndex over every pitch, loop flag and pair of counts
SpecSelect == InitIndex /\ [][NextSelect]_vars

(* ----------------------------- properties ------------------------------ *)

DragMomentumPending == \E f \in rafQueue : f.kind = "drag"

WheelMomentumPending == \E f \in rafQueue : f.kind = "wheel"

\* the last handler passed an event of this type to emit()
Emits(type) == \E i \in 1..Len(emitted) : emitted[i].type = type

\* the loop geometry of the InfiniteScroll
bandStep == infiniteScroll.params.slideWidth + infiniteScroll.params.gap

bandCloneWidth == infiniteScroll.params.cloneCount * bandStep

bandTotalWidth ==
  (infiniteScroll.params.originalCount + 2 * infiniteScroll.params.cloneCount) * bandStep

InLeadingBand(p) == p < bandCloneWidth - bandStep

InTrailingBand(p) == p > bandTotalWidth - bandCloneWidth + bandStep

\* looping is enabled over symmetric, non-empty padding
LoopingSymmetric ==
  /\ infiniteScroll.enabled
  /\ infiniteScroll.params.originalCount > 0
  /\ infiniteScroll.params.cloneCount = infiniteScroll.params.originalCount

\* handleInfiniteScroll ran last; lastOp.x is the position it found
RemapRan == lastOp.name = "handleInfiniteScroll"

\* the position is outside both bands and another remap leaves it alone
Landed ==
  /\ ~InLeadingBand(scrollLeft)
  /\ ~InTrailingBand(scrollLeft)
  /\ infiniteScrollCall(scrollLeft) = scrollLeft

\* C1 as stated: with looping enabled and cloneCount = originalCount > 0, the
\* position handleInfiniteScroll leaves is outside both trigger bands and a
\* second remap does not move it, for every position it may find.
C1_RemapLandsFromAnywhere ==
  (RemapRan /\ LoopingSymmetric) => Landed

\* C1 amended: the same, for the positions at most one step before the track
\* start and at most one step beyond its end (-step <= p <= totalWidth + step).
C1_RemapLandsWithinOneStepOfTrack ==
  (RemapRan /\ LoopingSymmetric /\ lastOp.x >= -bandStep
     /\ lastOp.x <= bandTotalWidth + bandStep) => Landed

\* a remap that found a negative position within one step of the track start
\* and jumped
C1_Witness ==
  /\ RemapRan
  /\ LoopingSymmetric
  /\ lastOp.x < 0
  /\ lastOp.x >= -bandStep
  /\ scrollLeft = lastOp.x + infiniteScroll.params.originalCount * bandStep

\* C2: with looping enabled and originalCount > 0, remap returns
\* position + originalCount*step below cloneWidth - step, position -
\* originalCount*step above totalWidth - cloneWidth + step, and position
\* otherwise.
C2_RemapCases ==
  (RemapRan /\ infiniteScroll.enabled /\ infiniteScroll.params.originalCount > 0) =>
    scrollLeft =
      IF lastOp.x < bandCloneWidth - bandStep
      THEN lastOp.x + infiniteScroll.params.originalCount * bandStep
      ELSE IF lastOp.x > bandTotalWidth - bandCloneWidth + bandStep
           THEN lastOp.x - infiniteScroll.params.originalCount * bandStep
           ELSE lastOp.x

\* the worked example: originalCount = cloneCount = 5, step = 120, 50 -> 650
C2_Witness ==
  /\ RemapRan
  /\ infiniteScroll.enabled
  /\ infiniteScroll.params.originalCount = 5
  /\ infiniteScroll.params.cloneCount = 5
  /\ bandStep = Px(120)
  /\ lastOp.x = Px(50)
  /\ scrollLeft = Px(650)

\* C3: for 0 <= index < originalCount, every pitch > 0, every cloneCount and
\* both values of loop, getSelectedIndex at the position calculateTargetScroll
\* gives for index is index.
C3_RoundTrip ==
  lastOp.name = "calculateTargetScroll" =>
    getSelectedIndex(scrollLeft, currentPitch, cloneCount, originalCount,
                     options.loop, slidesLength) = lastOp.x

\* a round trip of the last slide of several, looping, over clones
C3_Witness ==
  /\ lastOp.name = "calculateTargetScroll"
  /\ options.loop
  /\ cloneCount > 0
  /\ originalCount > 1
  /\ lastOp.x = originalCount - 1
  /\ scrollLeft = (cloneCount + lastOp.x) * currentPitch

\* C4: in the DragHandler builds no drag-momentum frame is scheduled while a
\* drag is in progress (drag-start cancelled it), no drag-momentum tick runs
\* during a drag, and a drag move leaves exactly
\* remap(scrollStart + (startX - x)) in the track.
C4_DragStartCancelsMomentum ==
  [][ /\ (hasDragHandler /\ state'.isDragging) =>
           (~DragMomentumPending' /\ state'.momentumAnimation = 0)
      /\ lastOp'.name = "dragMomentumFrame" => ~state.isDragging
      /\ (hasDragHandler /\ lastOp'.name = "handleDragMove" /\ state.isDragging) =>
           scrollLeft' =
             infiniteScrollCall(state.scrollStart + (state.startX - state'.lastX))
    ]_vars

\* a drag-start that cancelled a pending drag-momentum frame
C4_Witness ==
  /\ hasDragHandler
  /\ lastOp.name = "handleDragStart"
  /\ "drag" \in lastOp.cancelled
  /\ state.isDragging

\* C5: wheel momentum and drag momentum are never both scheduled, and after a
\* drag-start no wheel-momentum frame is scheduled.
C5_MomentaExclusive ==
  /\ ~(DragMomentumPending /\ WheelMomentumPending)
  /\ (lastOp.name = "handleDragStart" /\ state.isDragging) => ~WheelMomentumPending

\* C6: a scheduled momentum run, drag or wheel, whose frames are delivered
\* comes to have no frame scheduled and a null handle, for every velocity and
\* deceleration.
C6_MomentumSettles ==
  /\ DragMomentumPending ~> (~DragMomentumPending /\ state.momentumAnimation = 0)
  /\ WheelMomentumPending ~> (~WheelMomentumPending /\ wheelAnimationFrame = 0)

\* a drag momentum decaying by 0.99 per tick has settled
C6_Witness ==
  /\ lastOp.name = "dragMomentumFrame"
  /\ deceleration = 99
  /\ state.momentumAnimation = 0
  /\ BelowMinVelocity(state.velocity)
  /\ rafQueue = {}

\* every scheduled frame is the one its integrator holds the handle of
NoOrphanFrames ==
  \A f \in rafQueue :
    f.id = IF f.kind = "drag" THEN state.momentumAnimation ELSE wheelAnimationFrame

\* C7: a handler that cancels a momentum frame emits no 'select'; the cancelled
\* run leaves no frame behind (only a wheel event schedules a new wheel run at
\* once), so it cannot settle later.
C7_CancelEmitsNoSettle ==
  /\ lastOp.cancelled # {} => ~Emits("select")
  /\ ("drag" \in lastOp.cancelled) => ~DragMomentumPending
  /\ ("wheel" \in lastOp.cancelled /\ lastOp.name # "handleWheel") => ~WheelMomentumPending
  /\ NoOrphanFrames

\* a wheel event that cancelled a pending drag-momentum frame
C7_Witness ==
  /\ lastOp.name = "handleWheel"
  /\ "drag" \in lastOp.cancelled

\* C8: the tick on which a momentum run, drag or wheel, settles emits exactly
\* one 'select' with the selected index, and the ticks before it emit none.
C8_MomentumEndsWithOneSelect ==
  /\ lastOp.name = "dragMomentumFrame" =>
       IF state.momentumAnimation = 0
       THEN emitted = << Event("select", Carousel_getSelectedIndex(scrollLeft)) >>
       ELSE ~Emits("select")
  /\ lastOp.name = "wheelMomentumFrame" =>
       IF wheelAnimationFrame = 0
       THEN emitted = << Event("select", Carousel_getSelectedIndex(scrollLeft)) >>
       ELSE ~Emits("select")

\* C9: ending a drag in progress leaves no drag in progress; above the velocity
\* threshold it schedules momentum with the velocity kept and otherwise it
\* schedules none and emits one 'select' with the selected index.
C9_DragEndSettlesOrHandsOff ==
  [][ (lastOp'.name = "handleDragEnd" /\ state.isDragging) =>
        /\ ~state'.isDragging
        /\ IF AboveMinVelocity(state.velocity)
           THEN DragMomentumPending' /\ state'.velocity = state.velocity
           ELSE /\ ~DragMomentumPending'
                /\ emitted' = << Event("select", Carousel_getSelectedIndex(scrollLeft')) >>
    ]_vars

\* the handlers the claim names as mutating the position
MutatingHandlers ==
  {"handleDragMove", "dragMomentumFrame", "handleWheel", "wheelMomentumFrame", "scrollTo"}

\* C10: every drag move, drag-momentum tick, wheel event, wheel-momentum tick
\* and scrollTo that changes the position emits a 'scroll' with the index
\* resolved from the new position.
C10_ScrollOnEveryMutation ==
  [][ (lastOp'.name \in MutatingHandlers /\ scrollLeft' # scrollLeft) =>
        \E i \in 1..Len(emitted') :
          emitted'[i] = Event("scroll", Carousel_getSelectedIndex(scrollLeft'))
    ]_vars

SelectRan == lastOp.name = "getSelectedIndex"

Max(a, b) == IF a > b THEN a ELSE b

\* C11: with looping enabled and originalCount > 0, the index getSelectedIndex
\* returns for any position is an integer of 0 .. originalCount - 1.
C11_LoopIndexInRange ==
  (SelectRan /\ options.loop /\ originalCount > 0) =>
    lastOp.x \in 0..(originalCount - 1)

\* C12: with looping disabled, the index getSelectedIndex returns for any
\* position is round(position / pitch) clamped to 0 .. slideCount - 1.
C12_NoLoopIndexClamped ==
  (SelectRan /\ ~options.loop) =>
    lastOp.x = Max(0, Min(MathRound(scrollLeft, currentPitch), slidesLength - 1))

\* the last handler was scrollTo itself, called with lastOp.x
ScrollToRan == lastOp.name = "scrollTo"

\* C13: scrollTo with index < 0 or index >= slide count changes neither the
\* position, the scroll behaviour, the drag state nor any momentum, schedules
\* nothing and emits nothing.
C13_OutOfRangeScrollToIgnored ==
  [][ (ScrollToRan' /\ (lastOp'.x < 0 \/ lastOp'.x >= slidesLength)) =>
        /\ UNCHANGED << scrollLeft, scrollBehavior, state, wheelVelocity, wheelLastTime,
                        wheelAnimationFrame, rafQueue, loopTimeouts,
                        scrollEventPending >>
        /\ emitted' = << >>
    ]_vars

\* scrollTo(slide count) called away from the start with a momentum frame
\* scheduled, all of it still there
C13_Witness ==
  /\ ScrollToRan
  /\ lastOp.x >= slidesLength
  /\ scrollLeft # 0
  /\ rafQueue # {}
  /\ emitted = << >>

\* the cached geometry is the geometry of the container
GeometryFresh ==
  /\ slideWidth = currentSlideWidth
  /\ infiniteScroll.params.slideWidth = currentSlideWidth

IsSlideIndex(i) == i >= 0 /\ i < slidesLength

C16_ResizeReplacesGeometryOnly ==
  [][ lastOp'.name = "updateDimensions" =>
        /\ slideWidth' = currentSlideWidth
        /\ infiniteScroll.exists =>
             infiniteScroll'.params =
               [infiniteScroll.params EXCEPT !.slideWidth = currentSlideWidth,
                                             !.gap = options.gap]
        /\ UNCHANGED << scrollLeft, scrollBehavior, state, wheelVelocity,
                        wheelAnimationFrame, rafQueue, loopTimeouts, originalCount,
                        cloneCount >>
        /\ emitted' = << >>
    ]_vars

\* C17: in every reachable state cloneCount is 0 when looping is disabled and
\* originalCount when it is enabled, in the Carousel and in the parameters of
\* its InfiniteScroll.
C17_CloneCountFollowsLoop ==
  /\ cloneCount = IF options.loop THEN originalCount ELSE 0
  /\ infiniteScroll.exists =>
       infiniteScroll.params.cloneCount = IF options.loop THEN originalCount ELSE 0

\* the step of the loop jump, from the cached slide width
carouselStep == slideWidth + options.gap

\* p is in neither trigger band of the carousel's loop geometry
OutsideBands(p) ==
  /\ p >= cloneCount * carouselStep - carouselStep
  /\ p <= (originalCount + cloneCount) * carouselStep + carouselStep

\* C18: with looping enabled and originalCount > 0, every drag move,
\* drag-momentum tick, wheel event, wheel-momentum tick and scrollTo that
\* changes the position leaves it outside both trigger bands, whatever the
\* dragFree option.
C18_RemapAfterEveryMutation ==
  [][ (lastOp'.name \in MutatingHandlers /\ options.loop /\ originalCount > 0
         /\ scrollLeft' # scrollLeft) =>
        OutsideBands(scrollLeft')
    ]_vars

\* C19: when looping is disabled or originalCount = 0, the position after
\* handleInfiniteScroll is the position it found, for every position; the
\* same position and geometry given to Carousel.handleInfiniteScroll of the
\* inline build come back unchanged too.
C19_RemapOffWritesNothing ==
  /\ (RemapRan /\ (~infiniteScroll.enabled \/ infiniteScroll.params.originalCount = 0)) =>
       scrollLeft = lastOp.x
  /\ (RemapRan /\ (~options.loop \/ originalCount = 0)) =>
       Carousel_handleInfiniteScroll(lastOp.x) = lastOp.x

\* a disabled remap that found a position inside the leading band and left it
C19_Witness ==
  /\ RemapRan
  /\ ~infiniteScroll.enabled
  /\ infiniteScroll.params.originalCount > 0
  /\ InLeadingBand(lastOp.x)
  /\ scrollLeft = lastOp.x

\* the loop jump over the carousel's cached geometry: the position it gives
\* for p when looping is enabled and originalCount > 0, and p otherwise
remap(p) ==
  IF options.loop /\ originalCount > 0
  THEN IF p < cloneCount * carouselStep - carouselStep
       THEN p + originalCount * carouselStep
       ELSE IF p > (originalCount + cloneCount) * carouselStep + carouselStep
            THEN p - originalCount * carouselStep
            ELSE p
  ELSE p

\* C20: with dragging enabled, drag-start at pointer x records scrollStart =
\* the current position and startX = x; only drag-start changes the two; a drag
\* move at pointer x during the drag leaves position
\* remap(scrollStart + (startX - x)) and emits one 'scroll' with the index
\* resolved from that position.
C20_DragMovesFromAnchor ==
  [][ /\ (lastOp'.name = "handleDragStart" /\ options.dragFree) =>
           /\ state'.isDragging
           /\ state'.scrollStart = scrollLeft
           /\ state'.startX = lastOp'.x
           /\ scrollLeft' = scrollLeft
      /\ lastOp'.name # "handleDragStart" =>
           (state'.scrollStart = state.scrollStart /\ state'.startX = state.startX)
      /\ (lastOp'.name = "handleDragMove" /\ state.isDragging) =>
           /\ scrollLeft' = remap(state.scrollStart + (state.startX - lastOp'.x))
           /\ emitted' = << Event("scroll", Carousel_getSelectedIndex(scrollLeft')) >>
    ]_vars

\* a drag move at the pointer position of drag-start, in a drag that began
\* inside a trigger band: the position is remap of the anchor, not the anchor
C20_Witness ==
  /\ lastOp.name = "handleDragMove"
  /\ state.isDragging
  /\ options.loop
  /\ lastOp.x = state.startX
  /\ scrollLeft = remap(state.scrollStart)
  /\ scrollLeft # state.scrollStart
  /\ Emits("scroll")

\* C21: a drag move at pointer x read at time t, with dt = t - lastTime, leaves
\* velocity (lastX - x) / dt * 16 when dt > 0 and the previous velocity when
\* dt <= 0, and leaves lastX = x and lastTime = t in both cases.
C21_VelocityFromSamples ==
  [][ (hasDragHandler /\ lastOp'.name = "handleDragMove" /\ state.isDragging) =>
        /\ state'.velocity =
             IF now' - state.lastTime > 0
             THEN TruncDiv((state.lastX - lastOp'.x) * FrameMs, now' - state.lastTime)
             ELSE state.velocity
        /\ state'.lastX = lastOp'.x
        /\ state'.lastTime = now'
    ]_vars

\* the worked example: a sample at x = 80 taken 16 ms after one at x = 100
\* gives velocity 20
C21_Witness ==
  /\ hasDragHandler
  /\ lastOp.name = "handleDragMove"
  /\ state.isDragging
  /\ state.startX = Px(100)
  /\ state.lastX = Px(80)
  /\ state.lastTime = StartMs + FrameMs
  /\ state.velocity = Px(20)

\* C22: a pointer move or pointer end received while no drag is in progress
\* changes neither the position, the scroll behaviour, the drag state (its
\* velocity and samples included) nor any scheduled momentum, and emits nothing.
C22_IdlePointerEventsIgnored ==
  [][ (lastOp'.name \in {"handleDragMove", "handleDragEnd"} /\ ~state.isDragging) =>
        /\ UNCHANGED << scrollLeft, scrollBehavior, state, wheelVelocity,
                        wheelAnimationFrame, rafQueue, loopTimeouts,
                        scrollEventPending >>
        /\ emitted' = << >>
    ]_vars

\* a pointer move received after release, while drag momentum is running
C22_Witness ==
  /\ lastOp.name = "handleDragMove"
  /\ ~state.isDragging
  /\ DragMomentumPending
  /\ state.velocity # 0
  /\ emitted = << >>

\* C23: destroy() leaves no momentum frame scheduled, drag or wheel, and once
\* it has returned no frame is scheduled again and no animation tick, pointer
\* event or wheel event changes the position or emits.
C23_DestroyStopsEverything ==
  [][ /\ destroyed' => rafQueue' = {}
      /\ destroyed => (scrollLeft' = scrollLeft /\ emitted' = << >>)
    ]_vars

\* the callback is in the Set ls holds for the type
RegisteredIn(ls, type, callback) ==
  \E i \in 1..Len(ls[type]) : ls[type][i] = callback

\* how often e occurs in the sequence
TimesIn(seq, e) == Cardinality({i \in 1..Len(seq) : seq[i] = e})

\* C24: no Set of subscribers ever holds a callback twice; on() of a callback
\* already registered for the type changes nothing; after on() the callback is
\* registered and after a single off() it is not; every event a handler emits
\* invokes each callback registered for its type exactly once and no other
\* callback.
C24_RegistrationIsSetBased ==
  [][ /\ \A type \in EventTypes, callback \in Callbacks :
           TimesIn(listeners'[type], callback) <= 1
      /\ (lastOp'.name = "on" /\ RegisteredIn(listeners, lastOp'.type, lastOp'.x)) =>
           listeners' = listeners
      /\ lastOp'.name = "on" => RegisteredIn(listeners', lastOp'.type, lastOp'.x)
      /\ lastOp'.name = "off" => ~RegisteredIn(listeners', lastOp'.type, lastOp'.x)
      /\ lastOp'.name \notin {"on", "off", "destroy"} =>
           \A callback \in Callbacks, i \in 1..Len(emitted') :
             TimesIn(invoked', [callback |-> callback, event |-> emitted'[i]]) =
               IF RegisteredIn(listeners, emitted'[i].type, callback)
               THEN TimesIn(emitted', emitted'[i])
               ELSE 0
    ]_vars

\* on() for a callback that was the only one registered for the type: the Set
\* it found and the Set it leaves hold that callback once
C24_Witness ==
  /\ lastOp.name = "on"
  /\ lastOp.from = 1
  /\ listeners[lastOp.type] = << lastOp.x >>

\* the double calculateSlideWidth returns for the geometry of the state
widthResult ==
  calculateSlideWidthResult(containerWidth, options.gap, options.slidesPerView)

\* C25: calculateSlideWidth returns
\* (containerWidth - gap * (slidesPerView - 1)) / slidesPerView, and the result
\* is not finite whenever slidesPerView <= 0 or the width would be non-positive.
C25_SlideWidthOrFailure ==
  lastOp.name = "calculateSlideWidth" =>
    /\ (options.slidesPerView > 0 /\ widthResult.finite) =>
         lastOp.x = TruncDiv(containerWidth - options.gap * (options.slidesPerView - 1),
                             options.slidesPerView)
    /\ (options.slidesPerView <= 0 \/ lastOp.x <= 0) => ~widthResult.finite

\* C26: a resize whose computed slide width is not positive reconfigures
\* nothing: the cached slide width and the loop parameters stay the last
\* valid ones.
C26_InvalidResizeRefused ==
  [][ (lastOp'.name = "updateDimensions" /\ currentSlideWidth <= 0) =>
        /\ slideWidth' = slideWidth
        /\ infiniteScroll'.params = infiniteScroll.params
    ]_vars

\* the velocity the next drag-momentum tick moves by
decayedVelocity == Decay(state.velocity, deceleration)

\* C27: a drag-momentum tick that does not settle multiplies the velocity by
\* the deceleration, moves the position to remap(position + decayed velocity),
\* emits one 'scroll' with the index of the new position and leaves exactly
\* one next tick scheduled.
C27_MomentumTickOrder ==
  [][ (lastOp'.name = "dragMomentumFrame" /\ ~BelowMinVelocity(decayedVelocity)) =>
        /\ state'.velocity = decayedVelocity
        /\ scrollLeft' = remap(scrollLeft + decayedVelocity)
        /\ emitted' = << Event("scroll", Carousel_getSelectedIndex(scrollLeft')) >>
        /\ Cardinality({f \in rafQueue' : f.kind = "drag"}) = 1
        /\ \A f \in rafQueue' : f.kind = "drag" => f.id = state'.momentumAnimation
    ]_vars

\* a tick of a looping carousel that did not settle and moved the track
C27_Witness ==
  /\ lastOp.name = "dragMomentumFrame"
  /\ options.loop
  /\ state.momentumAnimation # 0
  /\ AboveMinVelocity(state.velocity)
  /\ scrollLeft # 0

\* the wheel handler ran and did not ignore the event
wheelHandled == lastOp.name = "handleWheel" /\ emitted # << >>

\* C28: a wheel event that is not ignored advances the position by its
\* velocity and remaps it, emits one 'scroll' with the index of the new
\* position, and above the velocity threshold leaves a wheel momentum
\* scheduled; every tick of that momentum decays the velocity by the wheel's
\* deceleration, and the tick that settles emits 'select'.
C28_WheelPipeline ==
  [][ /\ wheelHandled' =>
           /\ \E d \in WheelDeltas :
                LET v == IF build = "utils" THEN d[1] ELSE wheelVelocity'
                IN  scrollLeft' = remap(scrollLeft + v)
           /\ emitted' = << Event("scroll", Carousel_getSelectedIndex(scrollLeft')) >>
           /\ (build # "utils" /\ Abs(wheelVelocity') > SubPixel) => WheelMomentumPending'
           /\ (build = "utils" /\ scrollLeft' # scrollLeft) => WheelMomentumPending'
      /\ lastOp'.name = "wheelMomentumFrame" =>
           /\ wheelVelocity' = Decay(wheelVelocity, WheelDecelerationPct)
           /\ wheelAnimationFrame' = 0 =>
                emitted' = << Event("select", Carousel_getSelectedIndex(scrollLeft')) >>
    ]_vars

\* the position the loop jump gives for the track position of the state, with
\* the pitch and the counts getSelectedIndex is given
jumped ==
  handleInfiniteScroll(TRUE,
                       [slideWidth |-> currentSlideWidth, gap |-> options.gap,
                        originalCount |-> originalCount, cloneCount |-> cloneCount],
                       scrollLeft)

\* C29: with looping enabled, the index of remap(p) is the index of p, for
\* every position p and the same pitch and counts.
C29_JumpKeepsIndex ==
  (SelectRan /\ options.loop /\ originalCount > 0) =>
    lastOp.x = getSelectedIndex(jumped, currentPitch, cloneCount, originalCount,
                                options.loop, slidesLength)

\* the pitch the loop jump of the carousel works with: the inline build reads
\* its cached slide width, the others the parameters of their InfiniteScroll
remapPitch ==
  IF build = "inline"
  THEN (IF slideWidth > 0 THEN slideWidth ELSE currentSlideWidth) + options.gap
  ELSE bandStep

\* C30: in every reachable state the pitch the loop jump works with is the
\* pitch getSelectedIndex and scrollTo compute from the container width of
\* the moment.
C30_PitchNeverStale ==
  (build = "inline" \/ infiniteScroll.exists) => remapPitch = currentPitch

\* a comes before b in the sequence
Before(seq, a, b) ==
  \E i, j \in 1..Len(seq) : i < j /\ seq[i] = a /\ seq[j] = b

\* C31: the callbacks of an event type are called in the order they were
\* registered: on() puts a callback not yet registered after all registered
\* ones and moves none, off() moves none of the others, neither touches the
\* other type, and emit calls only callbacks registered for the type of the
\* event, an earlier registered one before a later one.
C31_DeliveryInRegistrationOrder ==
  [][ /\ (lastOp'.name = "on" /\ ~RegisteredIn(listeners, lastOp'.type, lastOp'.x)) =>
           listeners'[lastOp'.type] = Append(listeners[lastOp'.type], lastOp'.x)
      /\ lastOp'.name \in {"on", "off"} =>
           /\ \A a, b \in Callbacks \ {lastOp'.x} :
                Before(listeners'[lastOp'.type], a, b) = Before(listeners[lastOp'.type], a, b)
           /\ \A type \in EventTypes \ {lastOp'.type} : listeners'[type] = listeners[type]
      /\ lastOp'.name \notin {"on", "off", "destroy"} =>
           /\ \A i \in 1..Len(invoked') :
                RegisteredIn(listeners, invoked'[i].event.type, invoked'[i].callback)
           /\ \A i, j \in 1..Len(invoked') :
                (/\ i < j
                 /\ invoked'[i].event = invoked'[j].event
                 /\ TimesIn(emitted', invoked'[i].event) = 1) =>
                  Before(listeners[invoked'[i].event.type],
                         invoked'[i].callback, invoked'[j].callback)
    ]_vars

\* a 'scroll' event delivered to callback 2 and then to callback 1, registered
\* in that order, and not to the subscriber of 'select'
C31_Witness ==
  /\ lastOp.name = "handleWheel"
  /\ listeners["scroll"] = << 2, 1 >>
  /\ listeners["select"] # << >>
  /\ Len(invoked) = 2
  /\ invoked[1].callback = 2
  /\ invoked[2].callback = 1
  /\ invoked[1].event.type = "scroll"

\* the position handleInfiniteScroll found is on the physical track
FoundOnTrack == lastOp.x >= 0 /\ lastOp.x <= bandTotalWidth

\* C32: with looping enabled and cloneCount = originalCount > 0, one remap of
\* a position p with 0 <= p <= totalWidth leaves a position outside both
\* trigger bands, which a second remap does not move.
C32_OneRemapFromTheTrack ==
  (RemapRan /\ LoopingSymmetric /\ FoundOnTrack) =>
    /\ scrollLeft >= bandCloneWidth - bandStep
    /\ scrollLeft <= bandTotalWidth - bandCloneWidth + bandStep
    /\ handleInfiniteScroll(infiniteScroll.enabled, infiniteScroll.params, scrollLeft)
         = scrollLeft

\* a remap that found the track's last position, in the trailing band, and
\* jumped back by the originals
C32_Witness ==
  /\ RemapRan
  /\ LoopingSymmetric
  /\ lastOp.x = bandTotalWidth
  /\ scrollLeft = lastOp.x - infiniteScroll.params.originalCount * bandStep

\* C33: with looping enabled, the position scrollTo(index) sets for a valid
\* index is outside both trigger bands, and the loop jump of the carousel
\* does not move it.
C33_ScrollToTargetOutsideBands ==
  [][ (ScrollToRan' /\ options.loop /\ IsSlideIndex(lastOp'.x)) =>
        /\ OutsideBands(scrollLeft')
        /\ loopStep(scrollLeft') = scrollLeft'
    ]_vars

\* C34: a drag in progress and a drag momentum exclude each other: while
\* isDragging holds the momentum handle is null and no drag-momentum frame is
\* scheduled.
C34_DragExcludesMomentum ==
  state.isDragging => (state.momentumAnimation = 0 /\ ~DragMomentumPending)

\* the end of a drag that handed over to momentum: the handle is set, the
\* frame is scheduled and the drag is over
C34_Witness ==
  /\ hasDragHandler
  /\ lastOp.name = "handleDragEnd"
  /\ state.momentumAnimation # 0
  /\ DragMomentumPending
  /\ ~state.isDragging

\* the frames scheduled for one integrator
FramesOf(kind) == {f \in rafQueue : f.kind = kind}

\* C35: the drag momentum and the wheel momentum each have at most one
\* animation frame scheduled, whatever pointer and wheel events came before.
C35_OneFramePerIntegrator ==
  /\ Cardinality(FramesOf("drag")) <= 1
  /\ Cardinality(FramesOf("wheel")) <= 1

\* a wheel event that found a wheel frame scheduled, cancelled it and
\* scheduled the next
C35_Witness ==
  /\ lastOp.name = "handleWheel"
  /\ "wheel" \in lastOp.cancelled
  /\ Cardinality(FramesOf("wheel")) = 1
  /\ \A f \in FramesOf("wheel") : f.id = wheelAnimationFrame

\* C36: in the DragHandler builds drag-start leaves velocity 0 whatever it
\* was, a move that reads the clock where the last sample left it keeps the
\* velocity, and the end of a drag whose velocity is 0 schedules no momentum,
\* leaves the handle null and hands the track back to smooth scrolling: a drag
\* without a move with dt > 0 never starts momentum.
C36_ClickStartsNoMomentum ==
  [][ hasDragHandler =>
        /\ lastOp'.name = "handleDragStart" => state'.velocity = 0
        /\ (lastOp'.name = "handleDragMove" /\ state.isDragging /\ now' = state.lastTime) =>
             state'.velocity = state.velocity
        /\ (lastOp'.name = "handleDragEnd" /\ state.isDragging /\ state.velocity = 0) =>
             /\ ~state'.isDragging
             /\ ~DragMomentumPending'
             /\ state'.momentumAnimation = 0
             /\ state'.velocity = 0
             /\ scrollBehavior' = "smooth"
    ]_vars

\* a drag-start that cancelled the momentum the drag before had left, and
\* starts from velocity 0
C36_Witness ==
  /\ hasDragHandler
  /\ lastOp.name = "handleDragStart"
  /\ "drag" \in lastOp.cancelled
  /\ state.velocity = 0
  /\ state.lastX = state.startX

\* scrollTo, scrollNext or scrollPrev ran last
NavigationRan == lastOp.name \in {"scrollTo", "scrollNext", "scrollPrev"}

\* C37: on a carousel of zero slides scrollTo(i), scrollNext() and
\* scrollPrev() change nothing: the position is not written (and never with a
\* value that is not a number), the scroll behaviour stays, nothing is
\* scheduled and nothing is emitted.
C37_EmptyCarouselNavigationNoOp ==
  [][ (NavigationRan' /\ slidesLength = 0) =>
        /\ UNCHANGED << scrollLeft, scrollBehavior, loopTimeouts, rafQueue,
                        scrollEventPending >>
        /\ scrollLeft' # NaN
        /\ emitted' = << >>
    ]_vars

\* C38: off() leaves the callback unregistered for the type, and changes no
\* registration when the callback was not registered for it; destroy() leaves
\* no registration at all; a callback becomes registered through on() only;
\* and emit() never calls a callback that is not registered for the type of
\* the event.  So a callback taken out by off() or destroy() is not called
\* again unless on() registers it again.
C38_RemovedCallbacksStaySilent ==
  [][ /\ lastOp'.name = "off" =>
           /\ ~RegisteredIn(listeners', lastOp'.type, lastOp'.x)
           /\ ~RegisteredIn(listeners, lastOp'.type, lastOp'.x) => listeners' = listeners
           /\ invoked' = << >>
      /\ lastOp'.name = "destroy" =>
           /\ \A type \in EventTypes : listeners'[type] = << >>
           /\ invoked' = << >>
      /\ \A type \in EventTypes, callback \in Callbacks :
           (RegisteredIn(listeners', type, callback) /\ ~RegisteredIn(listeners, type, callback)) =>
             (lastOp'.name = "on" /\ lastOp'.type = type /\ lastOp'.x = callback)
      /\ \A i \in 1..Len(invoked') :
           RegisteredIn(listeners, invoked'[i].event.type, invoked'[i].callback)
    ]_vars

\* off() took one of two callbacks registered for a type out
C38_Witness ==
  /\ lastOp.name = "off"
  /\ lastOp.from = 2
  /\ Len(listeners[lastOp.type]) = 1
  /\ ~RegisteredIn(listeners, lastOp.type, lastOp.x)

\* C39: a wheel event received with the wheel option off, or with deltaX = 0,
\* changes neither the position nor the drag state nor the scheduled frames
\* and emits nothing; any other wheel event leaves no drag momentum scheduled
\* and the position remap(position + deltaX).
C39_WheelGuard ==
  [][ lastOp'.name = "handleWheel" =>
        IF ~options.wheel \/ lastOp'.x = 0
        THEN /\ UNCHANGED << scrollLeft, state, rafQueue >>
             /\ emitted' = << >>
        ELSE /\ ~DragMomentumPending'
             /\ state'.momentumAnimation = 0
             /\ scrollLeft' = remap(scrollLeft + lastOp'.x)
    ]_vars

====
